---- MODULE Spec2Model ----
(***************************************************************************)
(* A model of atm_pin_generator.cpp: the PIN pattern detector and          *)
(* generator, the XOR obfuscation codec, the '|'-delimited record codec,   *)
(* the file-backed UserDB, and the authenticate / changePin / withdraw     *)
(* logic driven from the menus.                                            *)
(*                                                                         *)
(* Strings are sequences of byte values (std::string).  A double holding   *)
(* an amount of money is modelled by its sign and its magnitude in         *)
(* hundredths (cents); the amounts withdrawn are multiples of 0.25, which  *)
(* are exact in binary floating point, so the arithmetic of the model is   *)
(* that of the code.  A subtraction of other amounts is left out.          *)
(***************************************************************************)
EXTENDS Integers, Sequences, FiniteSets, TLC

VARIABLES
    users,      \* UserDB::users, username -> User
    order,      \* iteration order of the unordered_map (a sequence of its keys)
    file,       \* the file atm_users.db: [present, bytes]
    pc,         \* where main() is: "construct", "loaded", "main", "session", "exited"
    user,       \* the local `User user` of loginAndRun / atmSession
    last,       \* the operation that was performed last, with its inputs and result
    streak,     \* username -> attempts failed in a row since the last success
    g_pc,       \* generatePin: "idle", "loop" (at the head of for(;;)) or "done"
    g_len,      \* generatePin: the parameter length
    g_pin,      \* generatePin: the local string pin
    u_pc,       \* a call of a function on its own: which stage of it is reached
    u_arg,      \* its argument
    u_ret       \* its result

vars == <<users, order, file, pc, user, last, streak, g_pc, g_len, g_pin, u_pc, u_arg, u_ret>>

-----------------------------------------------------------------------------
(* Characters *)

Ord(c) ==
    CASE c = "0" -> 48 [] c = "1" -> 49 [] c = "2" -> 50 [] c = "3" -> 51
      [] c = "4" -> 52 [] c = "5" -> 53 [] c = "6" -> 54 [] c = "7" -> 55
      [] c = "8" -> 56 [] c = "9" -> 57
      [] c = "a" -> 97 [] c = "b" -> 98 [] c = "c" -> 99 [] c = "d" -> 100
      [] c = "e" -> 101 [] c = "f" -> 102 [] c = "g" -> 103 [] c = "h" -> 104
      [] c = "i" -> 105 [] c = "k" -> 107 [] c = "n" -> 110 [] c = "o" -> 111
      [] c = "s" -> 115 [] c = "v" -> 118 [] c = "x" -> 120 [] c = "y" -> 121
      [] c = "_" -> 95 [] c = "|" -> 124 [] c = "." -> 46 [] c = "-" -> 45
      [] c = "+" -> 43 [] c = " " -> 32 [] c = "\n" -> 10

\* The std::string with the characters cs.
Str(cs) == [i \in 1..Len(cs) |-> Ord(cs[i])]

-----------------------------------------------------------------------------
(* Config *)

DEFAULT_PIN_LENGTH == 4
MAX_WRONG_ATTEMPTS == 3

-----------------------------------------------------------------------------
(* Pattern detector *)

\* The value of a char holding the byte b: char is signed in the build (g++
\* on x86-64), so the bytes from 128 on are the values -128..-1.
CharValue(b) == IF b >= 128 THEN b - 256 ELSE b

RECURSIVE isSequentialLoop(_, _, _, _)
\* The loop of isSequential from index i (1-based) with the flags asc, desc.
isSequentialLoop(pin, i, asc, desc) ==
    IF i > Len(pin) THEN asc \/ desc
    ELSE LET prev == CharValue(pin[i - 1]) - 48
             cur  == CharValue(pin[i]) - 48
         IN  isSequentialLoop(pin, i + 1,
                              asc /\ (cur = prev + 1),
                              desc /\ (cur = prev - 1))

RECURSIVE isSequentialWrapLoop(_, _, _, _)
\* The loop of isSequential taking 0 to follow 9 and 9 to follow 0.
isSequentialWrapLoop(pin, i, asc, desc) ==
    IF i > Len(pin) THEN asc \/ desc
    ELSE LET prev == CharValue(pin[i - 1]) - 48
             cur  == CharValue(pin[i]) - 48
         IN  isSequentialWrapLoop(pin, i + 1,
                                  asc /\ (cur = (prev + 1) % 10),
                                  desc /\ (cur = (prev + 9) % 10))

isSequentialWrap(pin) == isSequentialWrapLoop(pin, 2, TRUE, TRUE)

isSequential(pin) == isSequentialLoop(pin, 2, TRUE, TRUE)

RECURSIVE hasTooManyRepeatsLoop(_, _, _)
\* The first loop of hasTooManyRepeats: TRUE when it returns true, FALSE when
\* it runs to its end.
hasTooManyRepeatsLoop(pin, i, sameCount) ==
    IF i > Len(pin) THEN FALSE
    ELSE IF pin[i] = pin[i - 1]
         THEN IF sameCount + 1 >= 3 THEN TRUE
              ELSE hasTooManyRepeatsLoop(pin, i + 1, sameCount + 1)
         ELSE hasTooManyRepeatsLoop(pin, i + 1, 1)

\* hasTooManyRepeats without its test of allSame.
hasTooManyRepeatsRunOnly(pin) == hasTooManyRepeatsLoop(pin, 2, 1)

hasTooManyRepeats(pin) ==
    IF hasTooManyRepeatsLoop(pin, 2, 1) THEN TRUE
    ELSE \A i \in 1..Len(pin) : pin[i] = pin[1]

-----------------------------------------------------------------------------
(* PIN generator *)

banned ==
    { Str(<<"1","2","3","4">>), Str(<<"0","0","0","0">>), Str(<<"1","1","1","1">>),
      Str(<<"1","2","1","2">>), Str(<<"7","7","7","7">>), Str(<<"1","0","0","4">>),
      Str(<<"2","0","0","0">>), Str(<<"4","3","2","1">>), Str(<<"2","5","8","0">>) }

\* The digits ds (numbers 0..9, as digitDist yields them) pushed onto pin.
PinOf(ds) == [i \in 1..Len(ds) |-> 48 + ds[i]]

\* One pass of the body of for(;;) with the candidate pin drawn: "continue"
\* or "return".
generatePinBodyNoBanned(pin) ==
    IF isSequential(pin) THEN "continue"
    ELSE IF hasTooManyRepeats(pin) THEN "continue"
    ELSE "return"

\* The body with the test of the banned set inverted.
generatePinBodyBannedInverted(pin) ==
    IF isSequential(pin) THEN "continue"
    ELSE IF hasTooManyRepeats(pin) THEN "continue"
    ELSE IF pin \notin banned THEN "continue"
    ELSE "return"

generatePinBody(pin) ==
    IF isSequential(pin) THEN "continue"
    ELSE IF hasTooManyRepeats(pin) THEN "continue"
    ELSE IF pin \in banned THEN "continue"
    ELSE "return"

RECURSIVE generatePin(_, _)
\* generatePin(length) when the random source yields the digits rng, in order.
generatePin(length, rng) ==
    LET pin == PinOf(SubSeq(rng, 1, length))
    IN  IF generatePinBody(pin) = "continue"
        THEN generatePin(length, SubSeq(rng, length + 1, Len(rng)))
        ELSE pin

-----------------------------------------------------------------------------
(* Obfuscation codec *)

RECURSIVE XorByte(_, _)
\* a ^ b on bytes.
XorByte(a, b) ==
    IF a = 0 THEN b
    ELSE IF b = 0 THEN a
    ELSE (((a % 2) + (b % 2)) % 2) + 2 * XorByte(a \div 2, b \div 2)

key == Str(<<"s","a","c","h","i","n","_","k","e","y","_","v","1">>)

\* c ^ k for every byte c and every byte k of the key, tabulated.
XorKey == [k \in {key[j] : j \in 1..Len(key)} |-> [c \in 0..255 |-> XorByte(c, k)]]

obfuscateAdd(s) ==
    [i \in 1..Len(s) |-> (s[i] + key[((i - 1) % Len(key)) + 1]) % 256]

obfuscate(s) ==
    [i \in 1..Len(s) |-> XorKey[key[((i - 1) % Len(key)) + 1]][s[i]]]

deobfuscate(s) == obfuscate(s)

-----------------------------------------------------------------------------
(* Record codec *)

IsDigit(b) == b \in 48..57
IsSpace(b) == b \in {9, 10, 11, 12, 13, 32}
IsHexDigit(b) == b \in (48..57) \cup (65..70) \cup (97..102)

RECURSIVE DecBytes(_)
\* The decimal digits of n >= 0.
DecBytes(n) == IF n < 10 THEN <<48 + n>> ELSE DecBytes(n \div 10) \o <<48 + (n % 10)>>

RECURSIVE DecValue(_)
\* The number a string of decimal digits denotes (0 for the empty string).
DecValue(ds) ==
    IF Len(ds) = 0 THEN 0
    ELSE 10 * DecValue(SubSeq(ds, 1, Len(ds) - 1)) + (ds[Len(ds)] - 48)

RECURSIVE NegDecValue(_)
\* Minus the number a string of decimal digits denotes; it has the whole
\* range of int, INT_MIN included.
NegDecValue(ds) ==
    IF Len(ds) = 0 THEN 0
    ELSE 10 * NegDecValue(SubSeq(ds, 1, Len(ds) - 1)) - (ds[Len(ds)] - 48)

\* The decimal digits of -n for n < 0, INT_MIN included.
NegDecBytes(n) ==
    LET d == (10 - (n % 10)) % 10
        q == -((n + d) \div 10)
    IN  IF q = 0 THEN <<48 + d>> ELSE DecBytes(q) \o <<48 + d>>

\* oss << wrongAttempts
FormatInt(n) == IF n < 0 THEN <<45>> \o NegDecBytes(n) ELSE DecBytes(n)

\* A double that is a whole number of cents: its sign bit and its magnitude
\* in cents.  0.0 and -0.0 are two values, equal in comparisons.
Double(neg, mag) == [neg |-> neg, mag |-> mag]

\* The double of c cents, 0.0 for c = 0.
Cents(c) == Double(c < 0, IF c < 0 THEN -c ELSE c)

\* The number of cents a double stands for.
ValueOf(d) == IF d.neg THEN -d.mag ELSE d.mag

\* A value of double that is no whole number of cents or is 100000.00 or
\* more, or the result of strtod on a form the model leaves out (an exponent,
\* hexadecimal, inf, nan, a fraction small enough to underflow), or a
\* difference of doubles that is not exact: no input of the model yields one,
\* and TLC stops if one does.
Unmodelled == CHOOSE x \in {} : TRUE

\* Whether the double d is a multiple of 0.25.  Such an amount is held
\* exactly in binary; any other whole number of cents is held rounded (0.30
\* as 0.299999999999999988...).
HeldExactly(d) == d.mag % 25 = 0

\* a - b on doubles, rounding to nearest.  A difference of zero is 0.0 unless
\* it is (-0.0) - (0.0); a zero subtracted or subtracted from, and the
\* difference of amounts held exactly, are exact.  Any other difference is
\* that of the rounded operands and as a rule no double of whole cents
\* (1000.00 - 999.70 is 0.29999999999995453).
Minus(a, b) ==
    IF ValueOf(a) = ValueOf(b) THEN Double(a.mag = 0 /\ a.neg /\ ~b.neg, 0)
    ELSE IF b.mag = 0 THEN a
    ELSE IF a.mag = 0 THEN Double(~b.neg, b.mag)
    ELSE IF HeldExactly(a) /\ HeldExactly(b) THEN Cents(ValueOf(a) - ValueOf(b))
    ELSE Unmodelled

\* oss << fixed << setprecision(2) << balance
FormatFixed2(d) ==
    (IF d.neg THEN <<45>> ELSE <<>>) \o DecBytes(d.mag \div 100) \o <<46>>
        \o <<48 + ((d.mag \div 10) % 10), 48 + (d.mag % 10)>>

\* s from its (n+1)-th character on.
Drop(s, n) == SubSeq(s, n + 1, Len(s))

\* The least index in the set S of indices of s, Len(s) + 1 when S is empty.
FirstOf(S, s) == IF S = {} THEN Len(s) + 1 ELSE CHOOSE i \in S : \A j \in S : i <= j

\* s without the white space it begins with.
SkipSpace(s) == Drop(s, FirstOf({ i \in 1..Len(s) : ~IsSpace(s[i]) }, s) - 1)

\* The digits s begins with.
LeadingDigits(s) == SubSeq(s, 1, FirstOf({ i \in 1..Len(s) : ~IsDigit(s[i]) }, s) - 1)

\* The digits ds without the zeros they begin with, the last digit kept.
StripZeros(ds) ==
    Drop(ds, FirstOf({ i \in 1..Len(ds) : ds[i] # 48 \/ i = Len(ds) }, ds) - 1)

\* Whether the digits ds denote a number greater than the digits lim do.
Exceeds(ds, lim) ==
    LET z == StripZeros(ds)
    IN  \/ Len(z) > Len(lim)
        \/ /\ Len(z) = Len(lim)
           /\ \E i \in 1..Len(z) : z[i] > lim[i] /\ \A j \in 1..(i - 1) : z[j] = lim[j]

\* The digits of 2^1024 - 2^970 - 1, the greatest whole number that strtod
\* rounds to a finite double (DBL_MAX); from the next one on the result is
\* HUGE_VAL with ERANGE, and stod throws out_of_range.
GreatestFinite ==
    [i \in 1..309 |-> 48 +
     <<
       1,7,9,7,6,9,3,1,3,4,8,6,2,3,1,5,8,0,7,9,3,7,2,8,9,7,1,4,0,5,3,0,3,4,1,5,0,7,9,9,
       3,4,1,3,2,7,1,0,0,3,7,8,2,6,9,3,6,1,7,3,7,7,8,9,8,0,4,4,4,9,6,8,2,9,2,7,6,4,7,5,
       0,9,4,6,6,4,9,0,1,7,9,7,7,5,8,7,2,0,7,0,9,6,3,3,0,2,8,6,4,1,6,6,9,2,8,8,7,9,1,0,
       9,4,6,5,5,5,5,4,7,8,5,1,9,4,0,4,0,2,6,3,0,6,5,7,4,8,8,6,7,1,5,0,5,8,2,0,6,8,1,9,
       0,8,9,0,2,0,0,0,7,0,8,3,8,3,6,7,6,2,7,3,8,5,4,8,4,5,8,1,7,7,1,1,5,3,1,7,6,4,4,7,
       5,7,3,0,2,7,0,0,6,9,8,5,5,5,7,1,3,6,6,9,5,9,6,2,2,8,4,2,9,1,4,8,1,9,8,6,0,8,3,4,
       9,3,6,4,7,5,2,9,2,7,1,9,0,7,4,1,6,8,4,4,4,3,6,5,5,1,0,7,0,4,3,4,2,7,1,1,5,5,9,6,
       9,9,5,0,8,0,9,3,0,4,2,8,8,0,1,7,7,9,0,4,1,7,4,4,9,7,7,9,1
     >>[i]]

\* How many zeros a string of digits begins with.
LeadingZeros(ds) == Len(ds) - Len(StripZeros(ds \o <<49>>)) + 1

\* std::stod(token): [ok |-> FALSE] when it throws (invalid_argument where
\* there is no number, out_of_range where strtod overflows), else the double.
\* Leading white space is skipped, then the longest prefix of the form
\* [+-]digits[.digits] is converted, the sign kept on a zero; what follows
\* the prefix is ignored.  The operators below are the stages of the scan,
\* each given what the stages before it read.

\* The number read: sign, digits before and after the point, and the rest.
stodNumber(neg, ip, fp, rest) ==
    LET e1    == IF Len(rest) > 1 /\ rest[2] \in {43, 45} THEN Drop(rest, 2) ELSE Drop(rest, 1)
        expo  == Len(rest) > 0 /\ rest[1] \in {69, 101} /\ Len(e1) > 0 /\ IsDigit(e1[1])
        zero  == \A i \in 1..Len(ip) : ip[i] = 48
        tiny  == zero /\ LeadingZeros(fp) >= 307 /\ LeadingZeros(fp) < Len(fp)
        frac2 == <<IF Len(fp) >= 1 THEN fp[1] ELSE 48, IF Len(fp) >= 2 THEN fp[2] ELSE 48>>
        exact == Len(StripZeros(ip)) <= 5 /\ \A i \in 3..Len(fp) : fp[i] = 48
        mag   == 100 * DecValue(ip) + DecValue(frac2)
    IN  IF Len(ip) = 0 /\ Len(fp) = 0 THEN [ok |-> FALSE]
        ELSE IF expo THEN Unmodelled
        ELSE IF Exceeds(ip, GreatestFinite) THEN [ok |-> FALSE]
        ELSE IF tiny THEN Unmodelled
        ELSE IF ~exact THEN [ok |-> TRUE, val |-> Unmodelled]
        ELSE [ok |-> TRUE, val |-> Double(neg, mag)]

\* The digits fp after the point are read; r1 is what followed the digits ip.
stodFraction(neg, ip, r1, fp) ==
    stodNumber(neg, ip, fp,
               IF Len(r1) > 0 /\ r1[1] = 46 THEN Drop(r1, 1 + Len(fp)) ELSE r1)

\* The digits ip before the point are read; r1 is what follows them.
stodInteger(neg, ip, r1) ==
    stodFraction(neg, ip, r1,
                 IF Len(r1) > 0 /\ r1[1] = 46 THEN LeadingDigits(Tail(r1)) ELSE <<>>)

\* The sign is read; body is what follows it, low the same in lower case.
stodBody(neg, body, low) ==
    LET word == Len(low) >= 3 /\ SubSeq(low, 1, 3) \in {<<105, 110, 102>>, <<110, 97, 110>>}
        hex  == Len(low) >= 3 /\ low[1] = 48 /\ low[2] = 120
                  /\ (IsHexDigit(low[3]) \/ (low[3] = 46 /\ Len(low) >= 4 /\ IsHexDigit(low[4])))
    IN  IF word THEN [ok |-> TRUE, val |-> Unmodelled]
        ELSE IF hex THEN Unmodelled
        ELSE stodInteger(neg, LeadingDigits(body), Drop(body, Len(LeadingDigits(body))))

\* The white space is skipped; t is what follows it.
stodSign(t, body) ==
    stodBody(Len(t) > 0 /\ t[1] = 45, body,
             [i \in 1..Len(body) |-> IF body[i] \in 65..90 THEN body[i] + 32 ELSE body[i]])

stodSkipped(t) == stodSign(t, IF Len(t) > 0 /\ t[1] \in {43, 45} THEN Tail(t) ELSE t)

stod(token) == stodSkipped(SkipSpace(token))

\* std::stoi(token): [ok |-> FALSE] when it throws (no digits, or out of the
\* range of int), else the value of the longest prefix [+-]digits.
stoi(token) ==
    LET t      == SkipSpace(token)
        signed == Len(t) > 0 /\ t[1] \in {43, 45}
        neg    == Len(t) > 0 /\ t[1] = 45
        ds     == LeadingDigits(IF signed THEN Tail(t) ELSE t)
        max    == Str(<<"2","1","4","7","4","8","3","6","4", IF neg THEN "8" ELSE "7">>)
    IN  IF Len(ds) = 0 THEN [ok |-> FALSE]
        ELSE IF Exceeds(ds, max) THEN [ok |-> FALSE]
        ELSE [ok |-> TRUE, val |-> IF neg THEN NegDecValue(ds) ELSE DecValue(ds)]

\* The index of the first delim in s, 0 when there is none.
FindFirst(s, delim) ==
    IF \E i \in 1..Len(s) : s[i] = delim
    THEN CHOOSE i \in 1..Len(s) : s[i] = delim /\ \A j \in 1..(i - 1) : s[j] # delim
    ELSE 0

\* An input stream: the characters not yet read, and whether it is good()
\* (neither eofbit nor failbit set).
Stream(s) == [rest |-> s, good |-> TRUE]

\* std::getline(ss, str, delim), str holding old before the call: the string
\* after it, the stream after it, and whether the stream then converts to
\* true (!fail()).  On a stream that is not good the sentry fails and str is
\* left as it was; otherwise str is erased and filled up to delim or the end.
getline(ss, old, delim) ==
    LET k == FindFirst(ss.rest, delim)
    IN  IF ~ss.good THEN [str |-> old, ss |-> ss, ok |-> FALSE]
        ELSE IF k > 0
        THEN [str |-> SubSeq(ss.rest, 1, k - 1),
              ss  |-> [rest |-> Drop(ss.rest, k), good |-> TRUE],
              ok  |-> TRUE]
        ELSE [str |-> ss.rest,
              ss  |-> [rest |-> <<>>, good |-> FALSE],
              ok  |-> Len(ss.rest) > 0]

\* serialize writing wrongAttempts before balance.
serializeSwapped(u) ==
    obfuscate(u.username \o <<124>> \o u.pin \o <<124>> \o FormatInt(u.wrongAttempts)
              \o <<124>> \o FormatFixed2(u.balance) \o <<124>>
              \o (IF u.locked THEN <<49>> ELSE <<48>>))

\* User::serialize
serialize(u) ==
    obfuscate(u.username \o <<124>> \o u.pin \o <<124>> \o FormatFixed2(u.balance)
              \o <<124>> \o FormatInt(u.wrongAttempts) \o <<124>>
              \o (IF u.locked THEN <<49>> ELSE <<48>>))

\* User::deserialize: [ok |-> FALSE] when it throws, else the User.  token is
\* one variable read three times, so a getline that fails leaves in it what
\* the one before read.
deserialize(obf) ==
    LET s  == deobfuscate(obf)
        g1 == getline(Stream(s), <<>>, 124)
        g2 == getline(g1.ss, <<>>, 124)
        g3 == getline(g2.ss, <<>>, 124)
        b  == stod(g3.str)
        g4 == getline(g3.ss, g3.str, 124)
        w  == stoi(g4.str)
        g5 == getline(g4.ss, g4.str, 124)
    IN  IF ~b.ok THEN [ok |-> FALSE]
        ELSE IF ~w.ok THEN [ok |-> FALSE]
        ELSE [ok |-> TRUE,
              user |-> [username |-> g1.str, pin |-> g2.str, balance |-> b.val,
                        wrongAttempts |-> w.val, locked |-> (g5.str = <<49>>)]]

-----------------------------------------------------------------------------
(* UserDB *)

\* The map m with m[k] = v.
Put(m, k, v) == [x \in (DOMAIN m) \cup {k} |-> IF x = k THEN v ELSE m[x]]

\* The orders in which an unordered_map with the keys S may iterate.
Orders(S) ==
    { o \in [1..Cardinality(S) -> S] : \A i, j \in 1..Cardinality(S) : o[i] = o[j] => i = j }

NoFile == [present |-> FALSE, bytes |-> <<>>]

\* The UserDB object together with the file it reads and writes.
DbOf(us, ord, f) == [users |-> us, order |-> ord, file |-> f]

RECURSIVE loadLoop(_, _)
\* while (getline(ifs, line)) { ... } of UserDB::load
loadLoop(ifs, us) ==
    LET g == getline(ifs, <<>>, 10)
    IN  IF ~g.ok THEN us
        ELSE IF Len(g.str) = 0 THEN loadLoop(g.ss, us)
        ELSE LET d == deserialize(g.str)
             IN  IF d.ok THEN loadLoop(g.ss, Put(us, d.user.username, d.user))
                 ELSE loadLoop(g.ss, us)

\* UserDB::load: the map users after it.
load(f) == IF ~f.present THEN <<>> ELSE loadLoop(Stream(f.bytes), <<>>)

RECURSIVE saveLoop(_, _)
\* for (const auto &p : users) ofs << p.second.serialize() << '\n';
saveLoop(us, ord) ==
    IF Len(ord) = 0 THEN <<>>
    ELSE serialize(us[Head(ord)]) \o <<10>> \o saveLoop(us, Tail(ord))

\* UserDB::save: the file after it.
save(db) == [present |-> TRUE, bytes |-> saveLoop(db.users, db.order)]

exists(db, username) == username \in DOMAIN db.users

\* addUser without its test of exists(u.username).
addUserOverwrite(db, u, ord) ==
    LET d1 == [db EXCEPT !.users = Put(db.users, u.username, u), !.order = ord]
    IN  [ok |-> TRUE, db |-> [d1 EXCEPT !.file = save(d1)]]

\* UserDB::addUser; ord is the order in which the map iterates once u is in it.
addUser(db, u, ord) ==
    IF exists(db, u.username) THEN [ok |-> FALSE, db |-> db]
    ELSE LET d1 == [db EXCEPT !.users = Put(db.users, u.username, u), !.order = ord]
         IN  [ok |-> TRUE, db |-> [d1 EXCEPT !.file = save(d1)]]

\* UserDB::updateUser
updateUser(db, u) ==
    IF ~exists(db, u.username) THEN [ok |-> FALSE, db |-> db]
    ELSE LET d1 == [db EXCEPT !.users = Put(db.users, u.username, u)]
         IN  [ok |-> TRUE, db |-> [d1 EXCEPT !.file = save(d1)]]

\* UserDB::getUser
getUser(db, username) ==
    IF username \in DOMAIN db.users THEN [has |-> TRUE, value |-> db.users[username]]
    ELSE [has |-> FALSE]

-----------------------------------------------------------------------------
(* Application logic *)

\* A default-constructed User.
NoUser ==
    [username |-> <<>>, pin |-> <<>>, balance |-> Cents(0), wrongAttempts |-> 0, locked |-> FALSE]

\* The balance createAccount gives, 1000.00, in cents.
StartBalance == 100000

\* The User createAccount builds.
NewUser(username, pin) ==
    [username |-> username, pin |-> pin, balance |-> Cents(StartBalance),
     wrongAttempts |-> 0, locked |-> FALSE]

\* The ends of the range of int.
INT_MAX == 2147483647
INT_MIN == -2147483647 - 1

\* user.wrongAttempts += 1 where wrongAttempts is INT_MAX overflows a signed
\* int, which is undefined.  What g++ makes of lines 201 to 206 then: the sum
\* stored is the wrapped one, and the test of line 203 is made either on the
\* stored sum (the account is not locked) or, folded with the addition, on
\* the sum without wrap (it is locked).
SignedOverflow ==
    { [sum |-> INT_MIN, reached |-> FALSE], [sum |-> INT_MIN, reached |-> TRUE] }

\* Where the addition does not overflow nothing is left to choose.
NoOverflow == [sum |-> 0, reached |-> FALSE]

\* What a call of authenticate on an account with n wrong attempts may do in
\* its addition.
Overflows(n) == IF n = INT_MAX THEN SignedOverflow ELSE {NoOverflow}

\* authenticate locking only once the count exceeds MAX_WRONG_ATTEMPTS.
authenticateLate(db, u, entered, ub) ==
    IF u.locked THEN [ok |-> FALSE, db |-> db, user |-> u]
    ELSE IF entered = u.pin
    THEN LET u1 == [u EXCEPT !.wrongAttempts = 0]
         IN  [ok |-> TRUE, db |-> updateUser(db, u1).db, user |-> u1]
    ELSE LET over == u.wrongAttempts = INT_MAX
             u1 == [u EXCEPT !.wrongAttempts = IF over THEN ub.sum ELSE u.wrongAttempts + 1]
             u2 == IF (IF over THEN ub.reached ELSE u1.wrongAttempts > MAX_WRONG_ATTEMPTS)
                   THEN [u1 EXCEPT !.locked = TRUE] ELSE u1
         IN  [ok |-> FALSE, db |-> updateUser(db, u2).db, user |-> u2]

\* authenticate without its test of user.locked.
authenticateNoLockTest(db, u, entered, ub) ==
    IF entered = u.pin
    THEN LET u1 == [u EXCEPT !.wrongAttempts = 0]
         IN  [ok |-> TRUE, db |-> updateUser(db, u1).db, user |-> u1]
    ELSE LET over == u.wrongAttempts = INT_MAX
             u1 == [u EXCEPT !.wrongAttempts = IF over THEN ub.sum ELSE u.wrongAttempts + 1]
             u2 == IF (IF over THEN ub.reached ELSE u1.wrongAttempts >= MAX_WRONG_ATTEMPTS)
                   THEN [u1 EXCEPT !.locked = TRUE] ELSE u1
         IN  [ok |-> FALSE, db |-> updateUser(db, u2).db, user |-> u2]

\* authenticate without db.updateUser(user) after a wrong PIN.
authenticateNoUpdateOnFail(db, u, entered, ub) ==
    IF u.locked THEN [ok |-> FALSE, db |-> db, user |-> u]
    ELSE IF entered = u.pin
    THEN LET u1 == [u EXCEPT !.wrongAttempts = 0]
         IN  [ok |-> TRUE, db |-> updateUser(db, u1).db, user |-> u1]
    ELSE LET over == u.wrongAttempts = INT_MAX
             u1 == [u EXCEPT !.wrongAttempts = IF over THEN ub.sum ELSE u.wrongAttempts + 1]
             u2 == IF (IF over THEN ub.reached ELSE u1.wrongAttempts >= MAX_WRONG_ATTEMPTS)
                   THEN [u1 EXCEPT !.locked = TRUE] ELSE u1
         IN  [ok |-> FALSE, db |-> db, user |-> u2]

\* authenticate(db, user) when `entered` is read: the value returned, the db
\* and the caller's user after it.  ub, one of Overflows(u.wrongAttempts),
\* is what the addition does if it overflows.
authenticate(db, u, entered, ub) ==
    IF u.locked THEN [ok |-> FALSE, db |-> db, user |-> u]
    ELSE IF entered = u.pin
    THEN LET u1 == [u EXCEPT !.wrongAttempts = 0]
         IN  [ok |-> TRUE, db |-> updateUser(db, u1).db, user |-> u1]
    ELSE LET over == u.wrongAttempts = INT_MAX
             u1 == [u EXCEPT !.wrongAttempts = IF over THEN ub.sum ELSE u.wrongAttempts + 1]
             u2 == IF (IF over THEN ub.reached ELSE u1.wrongAttempts >= MAX_WRONG_ATTEMPTS)
                   THEN [u1 EXCEPT !.locked = TRUE] ELSE u1
         IN  [ok |-> FALSE, db |-> updateUser(db, u2).db, user |-> u2]

\* changePin refusing the PINs of the banned set as well.
changePinBanned(db, u, entered, newPin, ub) ==
    LET a == authenticate(db, u, entered, ub)
    IN  IF ~a.ok THEN [out |-> "NotAuthenticated", db |-> a.db, user |-> a.user]
        ELSE IF Len(newPin) # Len(a.user.pin)
        THEN [out |-> "InvalidLength", db |-> a.db, user |-> a.user]
        ELSE IF isSequential(newPin) \/ hasTooManyRepeats(newPin) \/ newPin \in banned
        THEN [out |-> "Weak", db |-> a.db, user |-> a.user]
        ELSE LET u1 == [a.user EXCEPT !.pin = newPin, !.wrongAttempts = 0]
             IN  [out |-> "Changed", db |-> updateUser(a.db, u1).db, user |-> u1]

\* changePin without its test of the length of newPin.
changePinAnyLength(db, u, entered, newPin, ub) ==
    LET a == authenticate(db, u, entered, ub)
    IN  IF ~a.ok THEN [out |-> "NotAuthenticated", db |-> a.db, user |-> a.user]
        ELSE IF isSequential(newPin) \/ hasTooManyRepeats(newPin)
        THEN [out |-> "Weak", db |-> a.db, user |-> a.user]
        ELSE LET u1 == [a.user EXCEPT !.pin = newPin, !.wrongAttempts = 0]
             IN  [out |-> "Changed", db |-> updateUser(a.db, u1).db, user |-> u1]

\* changePin(db, user) when `entered` and then newPin are read: what it
\* printed last, the db and the caller's user after it.
changePin(db, u, entered, newPin, ub) ==
    LET a == authenticate(db, u, entered, ub)
    IN  IF ~a.ok THEN [out |-> "NotAuthenticated", db |-> a.db, user |-> a.user]
        ELSE IF Len(newPin) # Len(a.user.pin)
        THEN [out |-> "InvalidLength", db |-> a.db, user |-> a.user]
        ELSE IF isSequential(newPin) \/ hasTooManyRepeats(newPin)
        THEN [out |-> "Weak", db |-> a.db, user |-> a.user]
        ELSE LET u1 == [a.user EXCEPT !.pin = newPin, !.wrongAttempts = 0]
             IN  [out |-> "Changed", db |-> updateUser(a.db, u1).db, user |-> u1]

\* Option 2 of atmSession without its test of amt > user.balance.
withdrawNoFundsTest(db, u, entered, amt, ub) ==
    LET a == authenticate(db, u, entered, ub)
    IN  IF ~a.ok THEN [out |-> "NotAuthenticated", db |-> a.db, user |-> a.user]
        ELSE IF amt <= 0 THEN [out |-> "InvalidAmount", db |-> a.db, user |-> a.user]
        ELSE LET u1 == [a.user EXCEPT !.balance = Minus(a.user.balance, Cents(amt))]
             IN  [out |-> "Withdrawn", db |-> updateUser(a.db, u1).db, user |-> u1]

\* Option 2 of atmSession when `entered` and then amt (in cents) are read.
withdraw(db, u, entered, amt, ub) ==
    LET a == authenticate(db, u, entered, ub)
    IN  IF ~a.ok THEN [out |-> "NotAuthenticated", db |-> a.db, user |-> a.user]
        ELSE IF amt <= 0 THEN [out |-> "InvalidAmount", db |-> a.db, user |-> a.user]
        ELSE IF amt > ValueOf(a.user.balance)
        THEN [out |-> "InsufficientFunds", db |-> a.db, user |-> a.user]
        ELSE LET u1 == [a.user EXCEPT !.balance = Minus(a.user.balance, Cents(amt))]
             IN  [out |-> "Withdrawn", db |-> updateUser(a.db, u1).db, user |-> u1]

-----------------------------------------------------------------------------
(* Inputs of the menu-driven program *)

\* The longest run of failed attempts the model counts: one attempt on a
\* locked account after the attempts that locked it.
MaxStreak == MAX_WRONG_ATTEMPTS + 1
\* The most accounts the model creates.
MaxAccounts == 1

\* What is typed at "Username".  With a 4-digit PIN and a balance of seven
\* characters the record of the second name has its last '|' at offset 24.
Usernames ==
    { Str(<<"b","o","b">>),
      Str(<<"a","b","c","d","e","f","g","h","i">>) }

\* What is typed at "Choose PIN length".
Choices == { Str(<<"4">>), Str(<<"6">>) }

\* The digits the random source yields from the call of generatePin on.  Read
\* four at a time, 1234 and 1212 are drawn before 4826; read six at a time,
\* 123412 is drawn first.
RngStreams == { <<1,2,3,4, 1,2,1,2, 4,8,2,6>> }

WrongPin == Str(<<"0","0","0","0">>)

\* What is typed at "Enter PIN" for the account u: its PIN, or 0000.
EnteredPins(u) == { u.pin, WrongPin }

\* What is typed at "Enter new PIN".
NewPins ==
    { Str(<<"1","2","1","2">>),
      Str(<<"1","2","3","4">>),
      Str(<<"1","1","1","2">>),
      Str(<<"1","2","1","2","1","2">>) }

\* The amounts typed at "Enter amount to withdraw", in cents: 0 and 750.00.
Amounts == { 0, 75000 }

-----------------------------------------------------------------------------
(* The program: main() and the menus *)

Db == DbOf(users, order, file)

Op(op, name, entered, newPin, amt, ok) ==
    [op |-> op, name |-> name, entered |-> entered, newPin |-> newPin, amt |-> amt, ok |-> ok]

\* The run of failed attempts on the account u after one more attempt, in
\* which `entered` is typed if the account is not locked.
StreakAfter(u, entered) ==
    IF ~u.locked /\ entered = u.pin THEN 0
    ELSE IF streak[u.username] < MaxStreak THEN streak[u.username] + 1
    ELSE MaxStreak

SetDb(db) ==
    /\ users' = db.users
    /\ order' = db.order
    /\ file' = db.file

\* main() before its loop: UserDB db, constructed where there is no file.
InitMain ==
    /\ users = load(NoFile)
    /\ order = <<>>
    /\ file = NoFile
    /\ pc = "main"
    /\ user = NoUser
    /\ last = Op("start", <<>>, <<>>, <<>>, 0, TRUE)
    /\ streak = <<>>

\* No call of generatePin under way.
InitGenIdle == g_pc = "idle" /\ g_len = 0 /\ g_pin = <<>>

\* No call of a pure function under way.
InitUnitIdle == u_pc = "idle" /\ u_arg = <<>> /\ u_ret = <<>>

Init == InitMain /\ InitGenIdle /\ InitUnitIdle

\* Main menu 1: createAccount
CreateAccount(username, choice, rng) ==
    /\ pc = "main"
    /\ exists(Db, username) \/ Cardinality(DOMAIN users) < MaxAccounts
    /\ IF exists(Db, username)
       THEN /\ UNCHANGED <<users, order, file, streak>>
            /\ last' = Op("createAccount", username, <<>>, <<>>, 0, FALSE)
       ELSE LET length == IF choice = Str(<<"6">>) THEN 6 ELSE DEFAULT_PIN_LENGTH
                pin    == generatePin(length, rng)
            IN  \E ord \in Orders((DOMAIN users) \cup {username}) :
                    LET r == addUser(Db, NewUser(username, pin), ord)
                    IN  /\ SetDb(r.db)
                        /\ streak' = Put(streak, username, 0)
                        /\ last' = Op("createAccount", username, choice, <<>>, 0, r.ok)
    /\ UNCHANGED <<pc, user, g_pc, g_len, g_pin, u_pc, u_arg, u_ret>>

\* Main menu 2: loginAndRun up to the call of atmSession
Login(username, entered) ==
    /\ pc = "main"
    /\ LET opt == getUser(Db, username)
       IN  IF ~opt.has
           THEN /\ UNCHANGED <<users, order, file, pc, user, streak>>
                /\ last' = Op("login", username, <<>>, <<>>, 0, FALSE)
           ELSE IF opt.value.locked
           THEN /\ UNCHANGED <<users, order, file, pc, user>>
                /\ streak' = Put(streak, username, StreakAfter(opt.value, <<>>))
                /\ last' = Op("login", username, <<>>, <<>>, 0, FALSE)
           ELSE \E ub \in Overflows(opt.value.wrongAttempts) :
                LET a == authenticate(Db, opt.value, entered, ub)
                    refreshed == getUser(a.db, username)
                IN  /\ SetDb(a.db)
                    /\ streak' = Put(streak, username, StreakAfter(opt.value, entered))
                    /\ last' = Op("login", username, entered, <<>>, 0, a.ok)
                    /\ IF a.ok
                       THEN /\ pc' = "session"
                            /\ user' = IF refreshed.has THEN refreshed.value ELSE a.user
                       ELSE UNCHANGED <<pc, user>>
    /\ UNCHANGED <<g_pc, g_len, g_pin, u_pc, u_arg, u_ret>>

\* Main menu 3: adminListUsers reads the file and prints
AdminListUsers ==
    /\ pc = "main"
    /\ last' = Op("adminListUsers", <<>>, <<>>, <<>>, 0, file.present)
    /\ UNCHANGED <<users, order, file, pc, user, streak, g_pc, g_len, g_pin, u_pc, u_arg, u_ret>>

\* Main menu 4
Exit ==
    /\ pc = "main"
    /\ pc' = "exited"
    /\ last' = Op("exit", <<>>, <<>>, <<>>, 0, TRUE)
    /\ UNCHANGED <<users, order, file, user, streak, g_pc, g_len, g_pin, u_pc, u_arg, u_ret>>

\* ATM menu 1: check balance
CheckBalance(entered) ==
    /\ pc = "session"
    /\ \E ub \in Overflows(user.wrongAttempts) :
       LET a == authenticate(Db, user, entered, ub)
       IN  /\ SetDb(a.db)
           /\ user' = a.user
           /\ streak' = Put(streak, user.username, StreakAfter(user, entered))
           /\ last' = Op("checkBalance", user.username, IF user.locked THEN <<>> ELSE entered, <<>>, 0, a.ok)
    /\ UNCHANGED <<pc, g_pc, g_len, g_pin, u_pc, u_arg, u_ret>>

\* ATM menu 2: withdraw
Withdraw(entered, amt) ==
    /\ pc = "session"
    /\ \E ub \in Overflows(user.wrongAttempts) :
       LET w == withdraw(Db, user, entered, amt, ub)
       IN  /\ SetDb(w.db)
           /\ user' = w.user
           /\ streak' = Put(streak, user.username, StreakAfter(user, entered))
           /\ last' = Op("withdraw", user.username, IF user.locked THEN <<>> ELSE entered, <<>>,
                         IF w.out = "NotAuthenticated" THEN 0 ELSE amt, w.out = "Withdrawn")
    /\ UNCHANGED <<pc, g_pc, g_len, g_pin, u_pc, u_arg, u_ret>>

\* ATM menu 3: changePin
ChangePin(entered, newPin) ==
    /\ pc = "session"
    /\ \E ub \in Overflows(user.wrongAttempts) :
       LET c == changePin(Db, user, entered, newPin, ub)
       IN  /\ SetDb(c.db)
           /\ user' = c.user
           /\ streak' = Put(streak, user.username, StreakAfter(user, entered))
           /\ last' = Op("changePin", user.username, IF user.locked THEN <<>> ELSE entered,
                         IF c.out = "NotAuthenticated" THEN <<>> ELSE newPin, 0, c.out = "Changed")
    /\ UNCHANGED <<pc, g_pc, g_len, g_pin, u_pc, u_arg, u_ret>>

\* ATM menu 4: logout, back to the main menu
Logout ==
    /\ pc = "session"
    /\ pc' = "main"
    /\ user' = NoUser
    /\ last' = Op("logout", user.username, <<>>, <<>>, 0, TRUE)
    /\ UNCHANGED <<users, order, file, streak, g_pc, g_len, g_pin, u_pc, u_arg, u_ret>>

Next ==
    \/ \E username \in Usernames, choice \in Choices, rng \in RngStreams :
           CreateAccount(username, choice, rng)
    \/ \E username \in Usernames :
           \E entered \in EnteredPins(IF exists(Db, username) THEN users[username] ELSE NoUser) :
               Login(username, entered)
    \/ AdminListUsers
    \/ Exit
    \/ \E entered \in EnteredPins(user) : CheckBalance(entered)
    \/ \E entered \in EnteredPins(user), amt \in Amounts : Withdraw(entered, amt)
    \/ \E entered \in EnteredPins(user), newPin \in NewPins : ChangePin(entered, newPin)
    \/ Logout

Spec == Init /\ [][Next]_vars

\* What may also be typed at "Enter new PIN": strings that are not digits,
\* one of them of the bytes 0x7e 0x7f 0x80 0x81, which ascend as bytes and
\* not as chars.
CharPins == { Str(<<"1","2","a","4">>), Str(<<"a","b","c","d">>), <<126, 127, 128, 129>> }

NextChars ==
    \/ Next
    \/ \E entered \in EnteredPins(user), newPin \in CharPins : ChangePin(entered, newPin)

\* The program when any characters are typed as the new PIN.
SpecChars == Init /\ [][NextChars]_vars

\* The process ends, at the menu or killed inside a session, and the program
\* is started again: main() constructs UserDB db, which loads the file the
\* runs before it wrote.
Restart ==
    /\ pc \in {"main", "session", "exited"}
    /\ pc' = "main"
    /\ users' = load(file)
    /\ order' \in Orders(DOMAIN load(file))
    /\ user' = NoUser
    /\ streak' = [n \in DOMAIN load(file) |-> IF n \in DOMAIN streak THEN streak[n] ELSE 0]
    /\ last' = Op("restart", <<>>, <<>>, <<>>, 0, file.present)
    /\ UNCHANGED <<file, g_pc, g_len, g_pin, u_pc, u_arg, u_ret>>

NextRestart == Next \/ Restart

\* Runs of the program one after another on the same file.
SpecRestart == Init /\ [][NextRestart]_vars

-----------------------------------------------------------------------------
(* Lockout, PIN change and persistence *)

\* The operations that ask for the PIN of an account.
AuthOps == { "login", "checkBalance", "withdraw", "changePin" }

\* C1: an account is locked exactly when the attempts on it since it was
\* created or last authenticated, all failed, number MAX_WRONG_ATTEMPTS (3)
\* or more: three wrong PINs in a row lock it, in one session or over
\* several logins, and fewer never do.
C1_ThreeWrongPinsLock ==
    \A n \in DOMAIN users : users[n].locked <=> (streak[n] >= MAX_WRONG_ATTEMPTS)

\* An account locked by its third wrong PIN in a row.
C1_Witness ==
    \E n \in DOMAIN users :
        /\ users[n].locked
        /\ streak[n] = MAX_WRONG_ATTEMPTS
        /\ last.op \in AuthOps /\ last.name = n /\ last.entered = WrongPin

\* C2: an attempt to authenticate on a locked account is rejected and
\* changes neither the account nor the store nor the file, whatever PIN
\* would have been typed.
C2_LockedRejectsUnchanged ==
    [][ (/\ last'.op \in AuthOps
         /\ last'.name \in DOMAIN users
         /\ users[last'.name].locked)
        => (/\ ~last'.ok
            /\ users' = users
            /\ order' = order
            /\ file' = file
            /\ user' = user
            /\ pc' = pc) ]_vars

\* An attempt was made on an account that was locked already.
C2_Witness ==
    /\ last.op \in AuthOps
    /\ last.name \in DOMAIN users
    /\ users[last.name].locked
    /\ streak[last.name] > MAX_WRONG_ATTEMPTS
    /\ ~last.ok

\* Whether changePin, called with the account u and these inputs, is to
\* replace the PIN.
ChangeAccepted(u, entered, newPin) ==
    /\ ~u.locked
    /\ entered = u.pin
    /\ Len(newPin) = Len(u.pin)
    /\ ~isSequential(newPin)
    /\ ~hasTooManyRepeats(newPin)

\* C3: changePin stores the new PIN exactly when the account is not locked,
\* the PIN entered is the stored one, the new PIN has the length of the
\* current one and is neither sequential nor repeat-heavy (banned or not);
\* it then leaves wrongAttempts 0 and the record written to the file, and
\* otherwise leaves the stored PIN as it was.
C3_ChangePinIff ==
    [][ last'.op = "changePin"
        => LET n == last'.name
           IN  IF ~user.locked /\ last'.entered = user.pin
                    /\ ChangeAccepted(user, last'.entered, last'.newPin)
               THEN /\ last'.ok
                    /\ users'[n].pin = last'.newPin
                    /\ users'[n].wrongAttempts = 0
                    /\ file' = save(DbOf(users', order', file'))
                    /\ load(file')[n].pin = last'.newPin
               ELSE /\ ~last'.ok
                    /\ users'[n].pin = users[n].pin ]_vars

\* A PIN of the banned set was accepted as the new PIN.
C3_Witness ==
    /\ last.op = "changePin"
    /\ last.ok
    /\ last.newPin \in banned
    /\ users[last.name].pin = last.newPin
    /\ users[last.name].wrongAttempts = 0

\* C4: a store constructed from the file holds what the store in memory
\* holds: the same usernames, each with the same pin, balance, wrongAttempts
\* and locked.
C4_RestartRestores == load(file) = users


-----------------------------------------------------------------------------
(* The obfuscation codec on its own *)

\* The longest string, after the padding, that is encoded.
MaxObfLen == 2

\* 13 is the length of the key: a byte after 12 or 13 bytes of padding meets
\* the last byte of the key, or its first byte again.
ObfPads == { [i \in 1..p |-> 65] : p \in {0, 12, 13} }

ObfBytes == { 0, 10, 49, 124, 255 }

ObfInputs ==
    { pad \o t : pad \in ObfPads, t \in UNION { [1..n -> ObfBytes] : n \in 0..MaxObfLen } }

InitObf ==
    /\ InitMain /\ InitGenIdle
    /\ u_pc = "plain" /\ u_arg \in ObfInputs /\ u_ret = <<>>

Obfuscate ==
    /\ u_pc = "plain"
    /\ u_pc' = "obfuscated"
    /\ u_ret' = <<obfuscate(u_arg)>>
    /\ UNCHANGED <<users, order, file, pc, user, last, streak, g_pc, g_len, g_pin, u_arg>>

Deobfuscate ==
    /\ u_pc = "obfuscated"
    /\ u_pc' = "deobfuscated"
    /\ u_ret' = <<u_ret[1], deobfuscate(u_ret[1])>>
    /\ UNCHANGED <<users, order, file, pc, user, last, streak, g_pc, g_len, g_pin, u_arg>>

NextObf == Obfuscate \/ Deobfuscate

SpecObf == InitObf /\ [][NextObf]_vars

\* C6: deobfuscate(obfuscate(x)) = x for every byte string x, the empty one
\* included, and the output of either is as long as its input.
C6_ObfuscateSelfInverse ==
    /\ u_pc \in {"obfuscated", "deobfuscated"} => Len(u_ret[1]) = Len(u_arg)
    /\ u_pc = "deobfuscated" => (u_ret[2] = u_arg /\ Len(u_ret[2]) = Len(u_ret[1]))

\* A string longer than the key, ending in a newline byte, was encoded and
\* decoded.
C6_Witness ==
    /\ u_pc = "deobfuscated"
    /\ Len(u_arg) > Len(key)
    /\ u_arg[Len(u_arg)] = 10
    /\ u_ret[1] # u_arg

-----------------------------------------------------------------------------
(* The record codec on its own *)

RecNames ==
    { Str(<<"b","o","b">>), Str(<<"a","b","c","d","e","f","g","h","i">>), Str(<<"y","o">>) }

RecPins ==
    { Str(<<"4","8","2","6">>), Str(<<"0","0","0","0">>), Str(<<"1","2","3","4","1","2">>) }

\* 0.00, 0.05, 999.99 and 1000.00
RecBalances == { Cents(0), Cents(5), Cents(99999), Cents(StartBalance) }

RecAttempts == { 0, MAX_WRONG_ATTEMPTS, 12 }

ValidAccounts ==
    [username : RecNames, pin : RecPins, balance : RecBalances,
     wrongAttempts : RecAttempts, locked : BOOLEAN]

InitRecord ==
    /\ InitMain /\ InitGenIdle
    /\ u_pc = "account" /\ u_arg \in ValidAccounts /\ u_ret = <<>>

Serialize ==
    /\ u_pc = "account"
    /\ u_pc' = "serialized"
    /\ u_ret' = <<serialize(u_arg)>>
    /\ UNCHANGED <<users, order, file, pc, user, last, streak, g_pc, g_len, g_pin, u_arg>>

Deserialize ==
    /\ u_pc = "serialized"
    /\ u_pc' = "deserialized"
    /\ u_ret' = <<u_ret[1], deserialize(u_ret[1])>>
    /\ UNCHANGED <<users, order, file, pc, user, last, streak, g_pc, g_len, g_pin, u_arg>>

NextRecord == Serialize \/ Deserialize

SpecRecord == InitRecord /\ [][NextRecord]_vars

\* C5: for a valid account, User::deserialize(account.serialize()) does not
\* throw and yields the account, field for field.
C5_RecordRoundTrip ==
    u_pc = "deserialized" =>
        /\ u_ret[2].ok
        /\ u_ret[2].user.username = u_arg.username
        /\ u_ret[2].user.pin = u_arg.pin
        /\ u_ret[2].user.balance = u_arg.balance
        /\ u_ret[2].user.wrongAttempts = u_arg.wrongAttempts
        /\ u_ret[2].user.locked = u_arg.locked

\* A locked account with a balance of 0.05 and a name whose first byte is
\* written as a newline came back from its line.
C5_Witness ==
    /\ u_pc = "deserialized"
    /\ u_arg.locked /\ u_arg.balance = Cents(5) /\ u_arg.wrongAttempts = 12
    /\ u_ret[1][1] = 10
    /\ u_ret[2].ok

-----------------------------------------------------------------------------
(* User::deserialize on lines of any shape *)

\* What the record format calls the fields of a line, a number and a
\* malformed line; User::deserialize is measured against these.

RECURSIVE SplitOn(_, _)
\* The fields of s between the delimiters d.
SplitOn(s, d) ==
    LET k == FindFirst(s, d)
    IN  IF k = 0 THEN <<s>> ELSE <<SubSeq(s, 1, k - 1)>> \o SplitOn(Drop(s, k), d)

RECURSIVE JoinWith(_, _)
\* The fields fs with the delimiter d between them.
JoinWith(fs, d) ==
    IF Len(fs) = 0 THEN <<>>
    ELSE IF Len(fs) = 1 THEN fs[1]
    ELSE fs[1] \o <<d>> \o JoinWith(Tail(fs), d)

\* t is [+-]digits, and nothing else.
IsInteger(t) ==
    LET body == IF Len(t) > 0 /\ t[1] \in {43, 45} THEN Tail(t) ELSE t
    IN  Len(body) > 0 /\ \A i \in 1..Len(body) : IsDigit(body[i])

\* t is [+-]digits[.digits] with a digit in it, and nothing else.
IsDecimalNumber(t) ==
    LET body == IF Len(t) > 0 /\ t[1] \in {43, 45} THEN Tail(t) ELSE t
        ip   == LeadingDigits(body)
        r1   == Drop(body, Len(ip))
        fp   == IF Len(r1) > 0 /\ r1[1] = 46 THEN Tail(r1) ELSE <<>>
    IN  /\ Len(ip) + Len(fp) > 0
        /\ Len(r1) = 0 \/ r1[1] = 46
        /\ \A i \in 1..Len(fp) : IsDigit(fp[i])

\* A decoded line that is no record: it has fewer than 5 fields, or its
\* balance is no decimal number, or its attempts are no integer.
Malformed(line) ==
    LET f == SplitOn(line, 124)
    IN  \/ Len(f) < 5
        \/ ~IsDecimalNumber(f[3])
        \/ ~IsInteger(f[4])

BalanceTokens ==
    { Str(<<"1","0",".","0","0">>), Str(<<"a","b","c">>), Str(<<"1","2","a","b","c">>), <<>> }

AttemptTokens == { Str(<<"2">>), Str(<<"x">>), Str(<<"3","x">>), <<>> }

LockedTokens == { Str(<<"0">>), Str(<<"1">>) }

\* The lines of 1 to 5 fields made of these tokens.
DecodedLines ==
    { JoinWith(SubSeq(<<Str(<<"a","b">>), Str(<<"1","2","3","4">>), b, a, l>>, 1, k), 124) :
        k \in 1..5, b \in BalanceTokens, a \in AttemptTokens, l \in LockedTokens }

InitDeser ==
    /\ InitMain /\ InitGenIdle
    /\ u_pc = "line" /\ u_arg \in DecodedLines /\ u_ret = <<>>

DeserializeLine ==
    /\ u_pc = "line"
    /\ u_pc' = "parsed"
    /\ u_ret' = deserialize(obfuscate(u_arg))
    /\ UNCHANGED <<users, order, file, pc, user, last, streak, g_pc, g_len, g_pin, u_arg>>

NextDeser == DeserializeLine

SpecDeser == InitDeser /\ [][NextDeser]_vars

\* C7: User::deserialize throws on every line that, decoded, has fewer than
\* 5 fields or a balance that is no decimal number or attempts that are no
\* integer.
C7_MalformedLineThrows ==
    (u_pc = "parsed" /\ Malformed(u_arg)) => ~u_ret.ok

-----------------------------------------------------------------------------
(* UserDB::load on files of any content *)

\* The most lines of a file that is loaded.
MaxFileLines == 3

\* Decoded lines: two records, a record of the name of the first, a line of
\* three fields, a line of two fields and a line whose balance is no number.
FileLines ==
    { Str(<<"a","n","|","1","2","3","4","|","1","0",".","0","0","|","0","|","0">>),
      Str(<<"b","o","|","4","8","2","6","|","5",".","0","0","|","2","|","1">>),
      Str(<<"a","n","|","4","8","2","6","|","5",".","0","0","|","1","|","0">>),
      Str(<<"c","x","|","1","2","3","4","|","1","0",".","0","0">>),
      Str(<<"d","x","|","1","2">>),
      Str(<<"e","x","|","1","2","3","4","|","a","b","c","|","0","|","0">>) }

RECURSIVE FileOf(_)
\* The file whose lines, decoded, are ls.
FileOf(ls) ==
    IF Len(ls) = 0 THEN <<>> ELSE obfuscate(Head(ls)) \o <<10>> \o FileOf(Tail(ls))

Files ==
    {NoFile} \cup
    { [present |-> TRUE, bytes |-> FileOf(ls)] :
        ls \in UNION { [1..n -> FileLines] : n \in 0..MaxFileLines } }

InitLoad ==
    /\ users = <<>> /\ order = <<>>
    /\ file \in Files
    /\ pc = "construct"
    /\ user = NoUser
    /\ last = Op("start", <<>>, <<>>, <<>>, 0, TRUE)
    /\ streak = <<>>
    /\ InitGenIdle /\ InitUnitIdle

\* UserDB db: the constructor calls load().
Load ==
    /\ pc = "construct"
    /\ pc' = "loaded"
    /\ users' = load(file)
    /\ order' \in Orders(DOMAIN load(file))
    /\ UNCHANGED <<file, user, last, streak, g_pc, g_len, g_pin, u_pc, u_arg, u_ret>>

NextLoad == Load

SpecLoad == InitLoad /\ [][NextLoad]_vars

\* The account a decoded line of five fields stands for.
AccountOf(line) ==
    LET f == SplitOn(line, 124)
    IN  [username |-> f[1], pin |-> f[2], balance |-> stod(f[3]).val,
         wrongAttempts |-> stoi(f[4]).val, locked |-> (f[5] = <<49>>)]

RECURSIVE WellFormedAccounts(_, _)
\* The accounts of the lines of ls that are not malformed, a later one of a
\* name replacing an earlier one, added to us.
WellFormedAccounts(ls, us) ==
    IF Len(ls) = 0 THEN us
    ELSE LET line == deobfuscate(Head(ls))
         IN  IF Malformed(line) THEN WellFormedAccounts(Tail(ls), us)
             ELSE WellFormedAccounts(Tail(ls),
                                     Put(us, AccountOf(line).username, AccountOf(line)))

\* C8: the store loaded from a file holds exactly the accounts of its
\* well-formed lines, those before and after a malformed line included and
\* none from a malformed line; from an absent file it is empty.
C8_LoadSkipsMalformed ==
    pc = "loaded" =>
        users = (IF file.present THEN WellFormedAccounts(SplitOn(file.bytes, 10), <<>>)
                 ELSE <<>>)

-----------------------------------------------------------------------------
(* UserDB::addUser and UserDB::updateUser on their own *)

StoreUsers ==
    [username : Usernames,
     pin : { Str(<<"4","8","2","6">>), Str(<<"1","2","1","2">>) },
     balance : { Cents(StartBalance) },
     wrongAttempts : { 0, 2 },
     locked : { FALSE }]

InitStore ==
    /\ InitMain /\ InitGenIdle
    /\ u_pc = "store" /\ u_arg = NoUser /\ u_ret = <<>>

\* db.addUser(u)
StoreAddUser(u) ==
    /\ u_pc = "store"
    /\ \E ord \in Orders((DOMAIN users) \cup {u.username}) :
           LET r == addUser(Db, u, ord)
           IN  /\ SetDb(r.db)
               /\ last' = Op("addUser", u.username, <<>>, <<>>, 0, r.ok)
    /\ u_arg' = u
    /\ UNCHANGED <<pc, user, streak, g_pc, g_len, g_pin, u_pc, u_ret>>

\* db.updateUser(u)
StoreUpdateUser(u) ==
    /\ u_pc = "store"
    /\ LET r == updateUser(Db, u)
       IN  /\ SetDb(r.db)
           /\ last' = Op("updateUser", u.username, <<>>, <<>>, 0, r.ok)
    /\ u_arg' = u
    /\ UNCHANGED <<pc, user, streak, g_pc, g_len, g_pin, u_pc, u_ret>>

NextStore ==
    \/ \E u \in StoreUsers : StoreAddUser(u)
    \/ \E u \in StoreUsers : StoreUpdateUser(u)

SpecStore == InitStore /\ [][NextStore]_vars

\* C9: addUser with a username that is in the store returns false and leaves
\* the map and the file as they were; updateUser with a username that is not
\* in the store returns false, inserts nothing and leaves the map and the
\* file as they were.
C9_StoreFailuresNoOp ==
    [][ /\ (last'.op = "addUser" /\ u_arg'.username \in DOMAIN users)
            => (/\ ~last'.ok
                /\ users' = users
                /\ order' = order
                /\ file' = file)
        /\ (last'.op = "updateUser" /\ u_arg'.username \notin DOMAIN users)
            => (/\ ~last'.ok
                /\ u_arg'.username \notin DOMAIN users'
                /\ users' = users
                /\ order' = order
                /\ file' = file) ]_vars

\* addUser was refused a record that differs from the one stored under its
\* name, while another name is not in the store.
C9_Witness ==
    /\ last.op = "addUser"
    /\ ~last.ok
    /\ u_arg.username \in DOMAIN users
    /\ users[u_arg.username] # u_arg
    /\ load(file) = users
    /\ \E n \in Usernames : n \notin DOMAIN users

-----------------------------------------------------------------------------
(* generatePin one draw at a time *)

\* The most by which two adjacent digits of a draw of six digits differ.
MaxStep == 1

RECURSIVE StepDraws(_)
\* The digit strings of length n whose adjacent digits differ by MaxStep at
\* most.
StepDraws(n) ==
    IF n = 1 THEN { <<d>> : d \in 0..9 }
    ELSE UNION { { Append(ds, d) : d \in { x \in 0..9 : /\ x - ds[n - 1] <= MaxStep
                                                        /\ ds[n - 1] - x <= MaxStep } } :
                 ds \in StepDraws(n - 1) }

\* The digits that digitDist(rng) may yield in the `length` calls of one
\* pass: any for the default length, those of StepDraws for another.
Draws(length) ==
    IF length = DEFAULT_PIN_LENGTH THEN [1..length -> 0..9] ELSE StepDraws(length)

InitGen == InitMain /\ InitGenIdle /\ InitUnitIdle

\* generatePin(length) is called: up to pin.clear() of the first pass.
GenCall(length) ==
    /\ g_pc = "idle"
    /\ g_pc' = "loop"
    /\ g_len' = length
    /\ g_pin' = <<>>
    /\ UNCHANGED <<users, order, file, pc, user, last, streak, u_pc, u_arg, u_ret>>

\* One pass of for(;;) in which `digits` are drawn: the candidate is tested;
\* on continue the next pass clears pin.
GenDraw(digits) ==
    /\ g_pc = "loop"
    /\ Len(digits) = g_len
    /\ IF generatePinBody(PinOf(digits)) = "return"
       THEN g_pc' = "done" /\ g_pin' = PinOf(digits)
       ELSE g_pc' = "loop" /\ g_pin' = <<>>
    /\ UNCHANGED <<users, order, file, pc, user, last, streak, g_len, u_pc, u_arg, u_ret>>

\* One pass of for(;;), whatever is drawn.
GenPass ==
    /\ g_pc = "loop"
    /\ \E digits \in Draws(g_len) : GenDraw(digits)

NextGen ==
    \/ \E length \in {DEFAULT_PIN_LENGTH, 6} : GenCall(length)
    \/ GenPass

SpecGen == InitGen /\ [][NextGen]_vars

\* C10: the PIN generatePin(length) returns, for length 4 or 6 and whatever
\* digits are drawn, has exactly `length` decimal digits, is not sequential,
\* is not repeat-heavy and is not in the banned set.
C10_GeneratedPinStrong ==
    g_pc = "done" =>
        /\ Len(g_pin) = g_len
        /\ \A i \in 1..Len(g_pin) : IsDigit(g_pin[i])
        /\ ~isSequential(g_pin)
        /\ ~hasTooManyRepeats(g_pin)
        /\ g_pin \notin banned

\* A PIN of six digits was returned.
C10_Witness ==
    /\ g_pc = "done"
    /\ g_len = 6
    /\ Len(g_pin) = 6

-----------------------------------------------------------------------------
(* The pattern detector on its own *)

\* The strings of digits given to the detector: all of up to the default
\* length, and of length 6 those of StepDraws.
PatternPins ==
    { PinOf(ds) : ds \in (UNION { [1..n -> 0..9] : n \in 0..DEFAULT_PIN_LENGTH })
                           \cup StepDraws(6) }

InitPattern ==
    /\ InitMain /\ InitGenIdle
    /\ u_pc = "pin" /\ u_arg \in PatternPins /\ u_ret = <<>>

IsSequentialCall ==
    /\ u_pc = "pin"
    /\ u_pc' = "isSequential"
    /\ u_ret' = isSequential(u_arg)
    /\ UNCHANGED <<users, order, file, pc, user, last, streak, g_pc, g_len, g_pin, u_arg>>

HasTooManyRepeatsCall ==
    /\ u_pc = "pin"
    /\ u_pc' = "hasTooManyRepeats"
    /\ u_ret' = hasTooManyRepeats(u_arg)
    /\ UNCHANGED <<users, order, file, pc, user, last, streak, g_pc, g_len, g_pin, u_arg>>

NextPattern == IsSequentialCall \/ HasTooManyRepeatsCall

SpecPattern == InitPattern /\ [][NextPattern]_vars

\* Every adjacent pair of pin goes up by exactly 1.
Ascends(pin) == \A i \in 1..(Len(pin) - 1) : pin[i + 1] = pin[i] + 1

\* Every adjacent pair of pin goes down by exactly 1.
Descends(pin) == \A i \in 1..(Len(pin) - 1) : pin[i + 1] = pin[i] - 1

\* C11: isSequential(pin) is true exactly when every adjacent pair of digits
\* goes up by 1 or every adjacent pair goes down by 1, 9 and 0 not being
\* adjacent; so it is true of the strings of length >= 3 whose i-th digit is
\* first + i, or first - i, and false when a pair breaks each direction.
C11_IsSequentialIff ==
    u_pc = "isSequential" =>
        /\ u_ret = (Ascends(u_arg) \/ Descends(u_arg))
        /\ (Len(u_arg) >= 3 /\ \A i \in 1..Len(u_arg) : u_arg[i] = u_arg[1] + (i - 1)) => u_ret
        /\ (Len(u_arg) >= 3 /\ \A i \in 1..Len(u_arg) : u_arg[i] = u_arg[1] - (i - 1)) => u_ret
        /\ ((\E i \in 1..(Len(u_arg) - 1) : u_arg[i + 1] # u_arg[i] + 1)
            /\ (\E i \in 1..(Len(u_arg) - 1) : u_arg[i + 1] # u_arg[i] - 1)) => ~u_ret

\* isSequential returned true for 456789.
C11_Witness ==
    /\ u_pc = "isSequential"
    /\ u_arg = Str(<<"4","5","6","7","8","9">>)
    /\ u_ret = TRUE

\* pin has three identical digits in a row.
HasRunOfThree(pin) ==
    \E i \in 1..(Len(pin) - 2) : pin[i] = pin[i + 1] /\ pin[i + 1] = pin[i + 2]

\* All the digits of pin are the same.
AllSame(pin) == \A i, j \in 1..Len(pin) : pin[i] = pin[j]

\* C12: for a non-empty string of digits hasTooManyRepeats(pin) is true
\* exactly when pin has a run of 3 or more identical digits or all its digits
\* are identical.
C12_HasTooManyRepeatsIff ==
    (u_pc = "hasTooManyRepeats" /\ Len(u_arg) > 0) =>
        u_ret = (HasRunOfThree(u_arg) \/ AllSame(u_arg))

\* hasTooManyRepeats returned true for 77.
C12_Witness ==
    /\ u_pc = "hasTooManyRepeats"
    /\ u_arg = Str(<<"7","7">>)
    /\ u_ret = TRUE

-----------------------------------------------------------------------------
(* The account across operations and restarts *)

\* C13: an account that is locked is there and locked after every step,
\* a restart of the program on the file it wrote included.
C13_LockedIsTerminal ==
    [][ \A n \in DOMAIN users :
            users[n].locked => (n \in DOMAIN users' /\ users'[n].locked) ]_vars

\* C14: in every state the program reaches, restarts on its own file
\* included, every account has 0 <= wrongAttempts <= MAX_WRONG_ATTEMPTS (3)
\* and is locked exactly when wrongAttempts is MAX_WRONG_ATTEMPTS.
C14_AttemptsBounded ==
    \A n \in DOMAIN users :
        /\ 0 <= users[n].wrongAttempts
        /\ users[n].wrongAttempts <= MAX_WRONG_ATTEMPTS
        /\ users[n].locked <=> (users[n].wrongAttempts = MAX_WRONG_ATTEMPTS)

\* C15: a correct PIN given for an unlocked account sets wrongAttempts to 0
\* and writes it to the file; a wrong PIN given for an unlocked account adds
\* exactly 1 to wrongAttempts; and wrongAttempts goes down in no step, a
\* restart of the program on the file it wrote included, but a successful
\* authentication (a successful PIN change begins with one).
C15_AttemptsCountFailures ==
    [][ /\ (/\ last'.op \in AuthOps
            /\ last'.name \in DOMAIN users
            /\ ~users[last'.name].locked)
           => IF last'.entered = users[last'.name].pin
              THEN /\ users'[last'.name].wrongAttempts = 0
                   /\ file' = save(DbOf(users', order', file'))
              ELSE users'[last'.name].wrongAttempts = users[last'.name].wrongAttempts + 1
        /\ \A n \in (DOMAIN users) \cap (DOMAIN users') :
              users'[n].wrongAttempts < users[n].wrongAttempts
                  => (/\ last'.op \in AuthOps
                      /\ last'.name = n
                      /\ ~users[n].locked
                      /\ last'.entered = users[n].pin) ]_vars

\* C16: the PIN of an account keeps, in every step, the length it was given
\* by createAccount: 6 if "6" was typed for the length, else
\* DEFAULT_PIN_LENGTH (4).
C16_PinLengthFixed ==
    [][ \A n \in DOMAIN users' :
            IF n \in DOMAIN users
            THEN Len(users'[n].pin) = Len(users[n].pin)
            ELSE /\ last'.op = "createAccount"
                 /\ last'.name = n
                 /\ Len(users'[n].pin) =
                        (IF last'.entered = Str(<<"6">>) THEN 6 ELSE DEFAULT_PIN_LENGTH) ]_vars

\* A new PIN of six digits was refused for an account whose PIN has four.
C16_Witness ==
    /\ last.op = "changePin"
    /\ ~last.ok
    /\ Len(last.newPin) = 6
    /\ Len(users[last.name].pin) = DEFAULT_PIN_LENGTH

\* C17: every stored PIN is a string of 4 or 6 decimal digits, whatever
\* string of the right length changePin is given as the new PIN.
C17_PinsAreDigits ==
    \A n \in DOMAIN users :
        /\ Len(users[n].pin) \in {DEFAULT_PIN_LENGTH, 6}
        /\ \A i \in 1..Len(users[n].pin) : IsDigit(users[n].pin[i])

\* C19: in a session the local copy of the account equals the record the
\* store holds under its name.
C19_SessionCopyIsStored ==
    pc = "session" =>
        /\ user.username \in DOMAIN users
        /\ users[user.username] = user

\* In a session a withdrawal was refused for a wrong PIN, the first failed
\* attempt on the account.
C19_Witness ==
    /\ pc = "session"
    /\ last.op = "withdraw"
    /\ ~last.ok
    /\ user.wrongAttempts = 1
    /\ users[user.username].wrongAttempts = 1

\* C20: no balance is negative, and a balance changes only in a withdrawal
\* from that account, made with its PIN while it is not locked, of an amount
\* with 0 < amount <= balance; so a refused withdrawal and any step on a
\* locked account leave the balance as it was.
C20_BalanceChangesByWithdraw ==
    [][ \A n \in DOMAIN users' :
            /\ ValueOf(users'[n].balance) >= 0
            /\ (n \in DOMAIN users /\ users'[n].balance # users[n].balance)
                => (/\ last'.op = "withdraw"
                    /\ last'.name = n
                    /\ last'.ok
                    /\ ~users[n].locked
                    /\ last'.entered = users[n].pin
                    /\ 0 < last'.amt
                    /\ last'.amt <= ValueOf(users[n].balance)) ]_vars

\* A withdrawal was refused for insufficient funds.
C20_Witness ==
    /\ last.op = "withdraw"
    /\ ~last.ok
    /\ last.entered = users[last.name].pin
    /\ last.amt > ValueOf(users[last.name].balance)
    /\ ValueOf(users[last.name].balance) > 0

-----------------------------------------------------------------------------
(* generatePin under a fair random source *)

\* The random source is fair: a sequence of digits that every pass can draw
\* is drawn in some pass.  It is stated of one sequence of each length.
SpecGenFair ==
    /\ InitGen /\ [][NextGen]_vars
    /\ WF_vars(GenDraw(<<2, 5, 8, 1>>))
    /\ WF_vars(GenDraw(<<1, 2, 2, 3, 3, 4>>))

\* C18: generatePin(length), for length 4 or 6, returns once called, the
\* random source being fair.
C18_GeneratePinReturns == (g_pc = "loop") ~> (g_pc = "done")

\* generatePin(4) returned 2581.
C18_Witness ==
    /\ g_pc = "done"
    /\ g_len = DEFAULT_PIN_LENGTH
    /\ g_pin = Str(<<"2","5","8","1">>)


=============================================================================
